---- MODULE Spec2Model ----
(***************************************************************************)
(* The favicon cache of searx/favicons/cache.py.                           *)
(*                                                                         *)
(* Spec      one caller of FaviconCacheSQLite: __call__, set, maintenance  *)
(*           on the tables blobs and blob_map, and the clock.              *)
(* SpecMEM   one caller of FaviconCacheMEM: __call__ and set on its two    *)
(*           dicts.                                                        *)
(* SpecConc  several workers on one SQLite database, one SQL statement     *)
(*           per step, writes in transactions.                             *)
(* SpecProxy one caller of search_favicon and favicon_url of               *)
(*           searx/favicons/proxy.py on FaviconCacheSQLite.                *)
(*                                                                         *)
(* Python values are tagged records, so that None, bytes, str, bool and    *)
(* tuples are distinct values that can be compared with each other. The    *)
(* configuration is scaled down: times count from 0 in steps of one, and   *)
(* contents are a few bytes long.                                          *)
(***************************************************************************)
EXTENDS Integers, Sequences, FiniteSets, TLC

VARIABLES
    cfg,               \* FaviconCacheConfig of the running instance
    now,               \* the clock: int(time.time()) and strftime('%s', 'now')
    blobs,             \* table blobs: rows (sha256, bytes_c, mime, data)
    blob_map,          \* table blob_map: rows (m_time, sha256, resolver, authority)
    LAST_MAINTENANCE,  \* properties.m_time("LAST_MAINTENANCE")
    mem_data,          \* FaviconCacheMEM._data: digest -> data
    mem_sha_mime,      \* FaviconCacheMEM._sha_mime: "resolver:authority" -> (digest, mime)
    last,              \* the most recent call, its arguments and what it returned
    workers,           \* the concurrent workers: where each is in its call, and its locals
    tx,                \* the open write transaction: its owner and its uncommitted tables
    sentinel_keys      \* the keys whose blob_map row has held FALLBACK_ICON

seq_vars == <<blobs, blob_map, LAST_MAINTENANCE, mem_data, mem_sha_mime, last>>
conc_vars == <<workers, tx, sentinel_keys>>
vars == <<cfg, now, blobs, blob_map, LAST_MAINTENANCE, mem_data, mem_sha_mime, last,
          workers, tx, sentinel_keys>>

----------------------------------------------------------------------------
(* Python values *)

None == [none |-> TRUE]
Bytes(s) == [bytes |-> s]
Str(s) == [str |-> s]
Tuple(a, b) == [tuple |-> <<a, b>>]
True == [bool |-> TRUE]
False == [bool |-> FALSE]
Raised == [raised |-> TRUE]

\* len(data or b"")
bytes_count(data) == IF data = None THEN 0 ELSE Len(data.bytes)

\* FALLBACK_ICON = b"FALLBACK_ICON"
FALLBACK_ICON == Bytes(<<70, 65, 76, 76, 66, 65, 67, 75, 95, 73, 67, 79, 78>>)

\* hashlib.sha256(data).hexdigest(): a str, one per content (no collisions)
hexdigest(data) == Str(<<"sha256">> \o data.bytes)

\* f"{resolver}:{authority}"
mem_key(resolver, authority) == Str(resolver.str \o <<":">> \o authority.str)

----------------------------------------------------------------------------
(* Bounds of the model and the inputs of the calls *)

MaxTime == 3
HOLD_TIME == 2
MAINTENANCE_PERIOD == 1
BLOB_MAX_BYTES == 2
LIMIT_TOTAL_BYTES == 2

RECURSIVE Repeat(_, _)
Repeat(b, n) == IF n = 0 THEN <<>> ELSE <<b>> \o Repeat(b, n - 1)

DataSmall == Bytes(<<1>>)
DataCeiling == Bytes(Repeat(2, BLOB_MAX_BYTES))
DataOversize == Bytes(Repeat(3, BLOB_MAX_BYTES + 1))

\* two workers: one call can fall between the steps of another
Workers == {1, 2}

Resolvers == {Str(<<"r">>)}
Authorities == {Str(<<"a">>), Str(<<"b">>)}
Mimes == {None, Str(<<"png">>), Str(<<"ico">>)}
SqliteData == {None, DataSmall, DataCeiling, DataOversize}
MemData == {None, DataSmall, FALLBACK_ICON}

Configs ==
    {[db_type |-> "sqlite", MAINTENANCE_MODE |-> m, HOLD_TIME |-> HOLD_TIME,
      LIMIT_TOTAL_BYTES |-> LIMIT_TOTAL_BYTES, BLOB_MAX_BYTES |-> BLOB_MAX_BYTES,
      MAINTENANCE_PERIOD |-> MAINTENANCE_PERIOD] : m \in {"auto", "off"}}
    \cup
    {[db_type |-> "mem", MAINTENANCE_MODE |-> "auto", HOLD_TIME |-> HOLD_TIME,
      LIMIT_TOTAL_BYTES |-> LIMIT_TOTAL_BYTES, BLOB_MAX_BYTES |-> BLOB_MAX_BYTES,
      MAINTENANCE_PERIOD |-> MAINTENANCE_PERIOD]}

----------------------------------------------------------------------------
(* FaviconCacheSQLite: the SQL statements *)

BlobRow(sha256, bytes_c, mime, data) ==
    [sha256 |-> sha256, bytes_c |-> bytes_c, mime |-> mime, data |-> data]

MapRow(m_time, sha256, resolver, authority) ==
    [m_time |-> m_time, sha256 |-> sha256, resolver |-> resolver, authority |-> authority]

\* INSERT INTO blobs with the conflict taken on (sha256, mime)
SQL_INSERT_BLOBS_PER_MIME(bl, sha256, bytes_c, mime, data) ==
    IF \E b \in bl : b.sha256 = sha256 /\ b.mime = mime
    THEN bl
    ELSE bl \cup {[sha256 |-> sha256, bytes_c |-> bytes_c, mime |-> mime, data |-> data]}

\* INSERT INTO blobs ... ON CONFLICT (sha256) DO UPDATE SET mime=excluded.mime
InsertBlobsUpdateMime(bl, sha256, bytes_c, mime, data) ==
    IF \E b \in bl : b.sha256 = sha256
    THEN {IF b.sha256 = sha256 THEN [b EXCEPT !.mime = mime] ELSE b : b \in bl}
    ELSE bl \cup {[sha256 |-> sha256, bytes_c |-> bytes_c, mime |-> mime, data |-> data]}

\* INSERT INTO blobs ... ON CONFLICT (sha256) DO NOTHING
SQL_INSERT_BLOBS(bl, sha256, bytes_c, mime, data) ==
    IF \E b \in bl : b.sha256 = sha256
    THEN bl
    ELSE bl \cup {BlobRow(sha256, bytes_c, mime, data)}

\* INSERT INTO blob_map ... ON CONFLICT DO UPDATE SET sha256=excluded.sha256 only
InsertBlobMapKeepTime(bm, sha256, resolver, authority, t) ==
    IF \E m \in bm : m.resolver = resolver /\ m.authority = authority
    THEN {IF m.resolver = resolver /\ m.authority = authority
          THEN [m EXCEPT !.sha256 = sha256]
          ELSE m : m \in bm}
    ELSE bm \cup {[m_time |-> t, sha256 |-> sha256, resolver |-> resolver,
                   authority |-> authority]}

\* INSERT INTO blob_map ... ON CONFLICT DO UPDATE SET sha256=excluded.sha256, m_time=now
SQL_INSERT_BLOB_MAP(bm, sha256, resolver, authority, t) ==
    IF \E m \in bm : m.resolver = resolver /\ m.authority = authority
    THEN {IF m.resolver = resolver /\ m.authority = authority
          THEN [m EXCEPT !.sha256 = sha256, !.m_time = t]
          ELSE m : m \in bm}
    ELSE bm \cup {MapRow(t, sha256, resolver, authority)}

\* DELETE FROM blob_map with <= for <
DropObsoleteMapAtHold(bm, t, hold) == {m \in bm : ~(m.m_time <= t - hold)}

\* DELETE FROM blob_map WHERE m_time < now - HOLD_TIME
DropObsoleteMap(bm, t, hold) == {m \in bm : ~(m.m_time < t - hold)}

\* maintenance() without SQL_DROP_LEFTOVER_BLOBS
KeepLeftoverBlobs(bl, bm) == bl

\* DELETE FROM blobs WHERE sha256 IN (blobs LEFT JOIN blob_map ... WHERE bm.sha256 IS NULL)
SQL_DROP_LEFTOVER_BLOBS(bl, bm) == {b \in bl : \E m \in bm : m.sha256 = b.sha256}

\* SELECT SUM(bytes_c) FROM blobs ... or 0
RECURSIVE total_bytes(_)
total_bytes(bl) ==
    IF bl = {} THEN 0
    ELSE LET b == CHOOSE r \in bl : TRUE IN b.bytes_c + total_bytes(bl \ {b})

\* The rows of blobs JOIN blob_map ON b.sha256 = bm.sha256
JoinRows(bl, bm) ==
    {[sha256 |-> b.sha256, bytes_c |-> b.bytes_c, m_time |-> m.m_time,
      resolver |-> m.resolver, authority |-> m.authority] :
        <<b, m>> \in {p \in bl \X bm : p[1].sha256 = p[2].sha256}}

\* SELECT b.sha256, b.bytes_c ... with ORDER BY bm.m_time DESC
IterNewestFirst(bl, bm) ==
    LET rows == JoinRows(bl, bm)
        n == Cardinality(rows)
    IN  {s \in [1..n -> rows] :
            /\ \A i, j \in 1..n : i # j => s[i] # s[j]
            /\ \A i, j \in 1..n : i < j => s[i].m_time >= s[j].m_time}

\* SELECT b.sha256, b.bytes_c ... ORDER BY bm.m_time ASC: every order of the
\* join's rows that ascends in m_time (rows of equal m_time come in any order)
RECURSIVE AscendingOrders(_)
AscendingOrders(rows) ==
    IF rows = {} THEN {<<>>}
    ELSE UNION {{<<r>> \o s : s \in AscendingOrders(rows \ {r})} :
                  r \in {x \in rows : \A y \in rows : x.m_time <= y.m_time}}

SQL_ITER_BLOBS_SHA256_BYTES_C(bl, bm) == AscendingOrders(JoinRows(bl, bm))

\* for row in ...: sha_list.append(sha256); c += bytes_c; if c > x: break
RECURSIVE sha_list(_, _, _, _, _)
sha_list(rows, i, c, x, acc) ==
    IF i > Len(rows) THEN acc
    ELSE LET c2 == c + rows[i].bytes_c
             acc2 == Append(acc, rows[i].sha256)
         IN  IF c2 > x THEN acc2 ELSE sha_list(rows, i + 1, c2, x, acc2)

Range(s) == {s[i] : i \in DOMAIN s}

----------------------------------------------------------------------------
(* FaviconCacheSQLite: the methods *)

\* __call__ that takes a row holding FALLBACK_ICON for no row
SqliteLookupNoSentinel(bl, bm, resolver, authority) ==
    LET res == {m \in bm : m.resolver = resolver /\ m.authority = authority
                           /\ m.sha256 # FALLBACK_ICON}
    IN  IF res = {} THEN None
        ELSE LET sha256 == (CHOOSE m \in res : TRUE).sha256
                 res2 == {b \in bl : b.sha256 = sha256}
             IN  IF res2 # {}
                 THEN LET b == CHOOSE r \in res2 : TRUE IN Tuple(b.data, b.mime)
                 ELSE Tuple(None, None)

\* __call__ that takes a row out of HOLD_TIME for no row
SqliteLookupWithinHold(bl, bm, resolver, authority) ==
    LET res == {m \in bm : m.resolver = resolver /\ m.authority = authority
                           /\ ~(m.m_time < now - cfg.HOLD_TIME)}
    IN  IF res = {} THEN None
        ELSE LET sha256 == (CHOOSE m \in res : TRUE).sha256
                 res2 == {b \in bl : b.sha256 = sha256}
             IN  IF sha256 = FALLBACK_ICON THEN Tuple(None, None)
                 ELSE IF res2 # {}
                      THEN LET b == CHOOSE r \in res2 : TRUE IN Tuple(b.data, b.mime)
                      ELSE Tuple(None, None)

\* __call__(resolver, authority)
SqliteLookup(bl, bm, resolver, authority) ==
    LET res == {m \in bm : m.resolver = resolver /\ m.authority = authority}
    IN  IF res = {} THEN None
        ELSE LET sha256 == (CHOOSE m \in res : TRUE).sha256
                 res2 == {b \in bl : b.sha256 = sha256}
             IN  IF sha256 = FALLBACK_ICON THEN Tuple(None, None)
                 ELSE IF res2 # {}
                      THEN LET b == CHOOSE r \in res2 : TRUE IN Tuple(b.data, b.mime)
                      ELSE Tuple(None, None)

\* next_maintenance_time
next_maintenance_time(c, last_m) == c.MAINTENANCE_PERIOD + last_m

\* The size step without its DELETE FROM blob_map
DropToLimitBlobsOnly(c, bl, bm) ==
    LET total == total_bytes(bl)
    IN  IF total > c.LIMIT_TOTAL_BYTES
        THEN {LET shas == Range(sha_list(rows, 1, 0, total - c.LIMIT_TOTAL_BYTES, <<>>))
              IN  [blobs |-> {b \in bl : b.sha256 \notin shas},
                   blob_map |-> bm,
                   size |-> TRUE] :
                rows \in SQL_ITER_BLOBS_SHA256_BYTES_C(bl, bm)}
        ELSE {[blobs |-> bl, blob_map |-> bm, size |-> FALSE]}

\* The size step of maintenance on the tables left by the first two steps:
\* the tables after it, one per order the rows can be read in
DropToLimit(c, bl, bm) ==
    LET total == total_bytes(bl)
    IN  IF total > c.LIMIT_TOTAL_BYTES
        THEN {LET shas == Range(sha_list(rows, 1, 0, total - c.LIMIT_TOTAL_BYTES, <<>>))
              IN  [blobs |-> {b \in bl : b.sha256 \notin shas},
                   blob_map |-> {m \in bm : m.sha256 \notin shas},
                   size |-> TRUE] :
                rows \in SQL_ITER_BLOBS_SHA256_BYTES_C(bl, bm)}
        ELSE {[blobs |-> bl, blob_map |-> bm, size |-> FALSE]}

\* The transaction of maintenance(): drop the rows out of HOLD_TIME, the
\* leftover blobs, and the oldest rows down to LIMIT_TOTAL_BYTES
MaintenanceTx(c, bl, bm, t) ==
    LET bm1 == DropObsoleteMap(bm, t, c.HOLD_TIME)
        bl1 == SQL_DROP_LEFTOVER_BLOBS(bl, bm1)
    IN  {[blobs |-> o.blobs, blob_map |-> o.blob_map, size |-> o.size,
          aged |-> Cardinality(bm) - Cardinality(bm1),
          leftover |-> Cardinality(bl) - Cardinality(bl1)] : o \in DropToLimit(c, bl1, bm1)}

\* What a call that ran no maintenance leaves: ran tells whether the
\* maintenance tasks ran, aged and leftover are the two logged row counts, size
\* tells whether rows were dropped to get within LIMIT_TOTAL_BYTES
NotRun(bl, bm, last_m) ==
    [blobs |-> bl, blob_map |-> bm, last_m |-> last_m,
     ran |-> FALSE, aged |-> 0, leftover |-> 0, size |-> FALSE]

\* maintenance(force) with <= for < in its check of the next maintenance time
MaintenanceAfterNext(c, bl, bm, last_m, t, force) ==
    IF ~force /\ t <= next_maintenance_time(c, last_m)
    THEN {NotRun(bl, bm, last_m)}
    ELSE {[blobs |-> o.blobs, blob_map |-> o.blob_map, last_m |-> t, ran |-> TRUE,
           aged |-> o.aged, leftover |-> o.leftover, size |-> o.size] :
            o \in MaintenanceTx(c, bl, bm, t)}

\* maintenance(force): the outcomes [blobs, blob_map, last_m, ran, aged, leftover, size]
maintenance(c, bl, bm, last_m, t, force) ==
    IF ~force /\ t < next_maintenance_time(c, last_m)
    THEN {NotRun(bl, bm, last_m)}
    ELSE {[blobs |-> o.blobs, blob_map |-> o.blob_map, last_m |-> t, ran |-> TRUE,
           aged |-> o.aged, leftover |-> o.leftover, size |-> o.size] :
            o \in MaintenanceTx(c, bl, bm, t)}

\* set() with >= for > in its check of the next maintenance time
SetMaintenanceAtNext(c, bl, bm, last_m, t) ==
    IF c.MAINTENANCE_MODE = "auto" /\ t >= next_maintenance_time(c, last_m)
    THEN maintenance(c, bl, bm, last_m, t, FALSE)
    ELSE {NotRun(bl, bm, last_m)}

\* The check of set() before anything else: automatic maintenance when due
SetMaintenance(c, bl, bm, last_m, t) ==
    IF c.MAINTENANCE_MODE = "auto" /\ t > next_maintenance_time(c, last_m)
    THEN maintenance(c, bl, bm, last_m, t, FALSE)
    ELSE {NotRun(bl, bm, last_m)}

\* set() with the check of the size one byte off
TooBigAboveCeiling(c, data) == bytes_count(data) > c.BLOB_MAX_BYTES + 1

\* set() with >= for > in its check of the size
TooBigAtCeiling(c, data) == bytes_count(data) >= c.BLOB_MAX_BYTES

\* bytes_c > self.cfg.BLOB_MAX_BYTES
TooBig(c, data) == bytes_count(data) > c.BLOB_MAX_BYTES

\* The two writes of set() in its transaction
SetTx(bl, bm, resolver, authority, mime, data, t) ==
    LET sha256 == IF data = None THEN FALLBACK_ICON ELSE hexdigest(data)
        bl1 == IF sha256 # FALLBACK_ICON
               THEN SQL_INSERT_BLOBS(bl, sha256, bytes_count(data), mime, data)
               ELSE bl
    IN  [blobs |-> bl1, blob_map |-> SQL_INSERT_BLOB_MAP(bm, sha256, resolver, authority, t)]

\* set(resolver, authority, mime, data): the outcomes of its maintenance
\* with the tables the call leaves and ret, what it returns
SqliteSet(c, bl, bm, last_m, t, resolver, authority, mime, data) ==
    {IF data # None /\ mime = None
     THEN o @@ [ret |-> False]
     ELSE IF TooBig(c, data)
     THEN o @@ [ret |-> False]
     ELSE LET w == SetTx(o.blobs, o.blob_map, resolver, authority, mime, data, t)
          IN  [o EXCEPT !.blobs = w.blobs, !.blob_map = w.blob_map] @@ [ret |-> True] :
        o \in SetMaintenance(c, bl, bm, last_m, t)}

----------------------------------------------------------------------------
(* FaviconCacheMEM *)

\* __call__(resolver, authority)
MemLookup(d, sm, resolver, authority) ==
    LET k == mem_key(resolver, authority)
        sha_mime == IF k \in DOMAIN sm THEN sm[k] ELSE <<None, None>>
        sha == sha_mime[1]
        mime == sha_mime[2]
    IN  IF sha = None THEN None
        ELSE LET data == IF sha \in DOMAIN d THEN d[sha] ELSE None
             IN  Tuple(IF data = FALLBACK_ICON THEN None ELSE data, mime)

\* set(resolver, authority, mime, data): [data, sha_mime, ret]
MemSet(d, sm, resolver, authority, mime, data) ==
    IF data # None /\ mime = None
    THEN [data |-> d, sha_mime |-> sm, ret |-> None]
    ELSE LET data1 == IF data = None THEN FALLBACK_ICON ELSE data
             mime1 == IF data = None THEN None ELSE mime
             digest == hexdigest(data1)
             k == mem_key(resolver, authority)
         IN  [data |-> [x \in DOMAIN d \cup {digest} |-> IF x = digest THEN data1 ELSE d[x]],
              sha_mime |-> [x \in DOMAIN sm \cup {k} |->
                               IF x = k THEN <<digest, mime1>> ELSE sm[x]],
              ret |-> None]

----------------------------------------------------------------------------
(* The sequential specifications: one caller, one call at a time, on the   *)
(* SQLite backend (Spec) and on the in-memory backend (SpecMEM)            *)

\* A call, its arguments, what it returned and what its maintenance did
Call(op, resolver, authority, mime, data, force, ret, o) ==
    [op |-> op, resolver |-> resolver, authority |-> authority, mime |-> mime,
     data |-> data, force |-> force, ret |-> ret,
     ran |-> o.ran, aged |-> o.aged, leftover |-> o.leftover, size |-> o.size]

NoCall == Call("none", None, None, None, None, FALSE, None, NotRun({}, {}, 0))

\* A worker between two calls, and the database with no write transaction open
Idle == [pc |-> "idle", op |-> "none", resolver |-> None, authority |-> None,
         mime |-> None, data |-> None, force |-> FALSE, sha256 |-> None, ret |-> None]

NoTx == [owner |-> 0, blobs |-> {}, blob_map |-> {}]

\* init(cfg): the cache of the configured db_type, empty
InitCache(configs) ==
    /\ cfg \in configs
    /\ now = 0
    /\ blobs = {}
    /\ blob_map = {}
    /\ LAST_MAINTENANCE = 0
    /\ mem_data = <<>>
    /\ mem_sha_mime = <<>>
    /\ last = NoCall
    /\ workers = [w \in Workers |-> Idle]
    /\ tx = NoTx
    /\ sentinel_keys = {}

Init == InitCache({c \in Configs : c.db_type = "sqlite"})

\* time passes between two calls
Tick ==
    /\ now < MaxTime
    /\ now' = now + 1
    /\ last' = NoCall
    /\ UNCHANGED <<cfg, blobs, blob_map, LAST_MAINTENANCE, mem_data, mem_sha_mime, conc_vars>>

\* CACHE(resolver, authority) that writes the time of the read to the row
LookupRefreshing ==
    /\ \E resolver \in Resolvers, authority \in Authorities :
        /\ last' = Call("lookup", resolver, authority, None, None, FALSE,
                        SqliteLookup(blobs, blob_map, resolver, authority), NotRun({}, {}, 0))
        /\ blob_map' = {IF m.resolver = resolver /\ m.authority = authority
                        THEN [m EXCEPT !.m_time = now] ELSE m : m \in blob_map}
    /\ UNCHANGED <<cfg, now, blobs, LAST_MAINTENANCE, mem_data, mem_sha_mime, conc_vars>>

\* CACHE(resolver, authority)
Lookup ==
    /\ \E resolver \in Resolvers, authority \in Authorities :
        last' = Call("lookup", resolver, authority, None, None, FALSE,
                     SqliteLookup(blobs, blob_map, resolver, authority), NotRun({}, {}, 0))
    /\ UNCHANGED <<cfg, now, blobs, blob_map, LAST_MAINTENANCE, mem_data, mem_sha_mime,
                   conc_vars>>

\* CACHE.set(resolver, authority, mime, data)
Set ==
    /\ \E resolver \in Resolvers, authority \in Authorities, mime \in Mimes, data \in SqliteData :
        \E o \in SqliteSet(cfg, blobs, blob_map, LAST_MAINTENANCE, now,
                           resolver, authority, mime, data) :
            /\ blobs' = o.blobs
            /\ blob_map' = o.blob_map
            /\ LAST_MAINTENANCE' = o.last_m
            /\ last' = Call("set", resolver, authority, mime, data, FALSE, o.ret, o)
    /\ UNCHANGED <<cfg, now, mem_data, mem_sha_mime, conc_vars>>

\* CACHE.maintenance(force) called by an external process or by hand
Maintenance ==
    /\ \E force \in BOOLEAN :
        \E o \in maintenance(cfg, blobs, blob_map, LAST_MAINTENANCE, now, force) :
            /\ blobs' = o.blobs
            /\ blob_map' = o.blob_map
            /\ LAST_MAINTENANCE' = o.last_m
            /\ last' = Call("maintenance", None, None, None, None, force, None, o)
    /\ UNCHANGED <<cfg, now, mem_data, mem_sha_mime, conc_vars>>

Next == Tick \/ Lookup \/ Set \/ Maintenance

Spec == Init /\ [][Next]_vars

InitMEM == InitCache({c \in Configs : c.db_type = "mem"})

\* CACHE(resolver, authority) on the in-memory backend
LookupMEM ==
    /\ \E resolver \in Resolvers, authority \in Authorities :
        last' = Call("lookup", resolver, authority, None, None, FALSE,
                     MemLookup(mem_data, mem_sha_mime, resolver, authority), NotRun({}, {}, 0))
    /\ UNCHANGED <<cfg, now, blobs, blob_map, LAST_MAINTENANCE, mem_data, mem_sha_mime,
                   conc_vars>>

\* CACHE.set(resolver, authority, mime, data) on the in-memory backend
SetMEM ==
    /\ \E resolver \in Resolvers, authority \in Authorities, mime \in Mimes, data \in MemData :
        LET o == MemSet(mem_data, mem_sha_mime, resolver, authority, mime, data)
        IN  /\ mem_data' = o.data
            /\ mem_sha_mime' = o.sha_mime
            /\ last' = Call("set", resolver, authority, mime, data, FALSE, o.ret,
                             NotRun({}, {}, 0))
    /\ UNCHANGED <<cfg, now, blobs, blob_map, LAST_MAINTENANCE, conc_vars>>

NextMEM == LookupMEM \/ SetMEM

SpecMEM == InitMEM /\ [][NextMEM]_vars

\* what CACHE(resolver, authority) returns in the current state
CurrentLookup(resolver, authority) ==
    IF cfg.db_type = "sqlite"
    THEN SqliteLookup(blobs, blob_map, resolver, authority)
    ELSE MemLookup(mem_data, mem_sha_mime, resolver, authority)

----------------------------------------------------------------------------
(* The concurrent specification: several workers call lookup, set and      *)
(* maintenance on one SQLite database. Each SQL statement is one step. A   *)
(* write transaction holds the write lock from its first statement to its  *)
(* commit or rollback, and its writes are not visible before the commit.   *)

ConcAuthorities == {Str(<<"a">>)}
ConcData == {None, DataSmall, DataCeiling}
ConcMimes == {Str(<<"png">>)}

Key(resolver, authority) == <<resolver, authority>>

\* the worker is back from its call with ret (what a lookup returned
\* and that a call raised is kept until the worker's next call)
Return(w, ret) ==
    [workers EXCEPT ![w] =
        IF workers[w].op = "lookup" \/ ret = Raised
        THEN [Idle EXCEPT !.op = workers[w].op, !.resolver = workers[w].resolver,
                          !.authority = workers[w].authority, !.ret = ret]
        ELSE Idle]

Goto(w, pc) == [workers EXCEPT ![w].pc = pc]

\* __call__: SELECT sha256 FROM blob_map WHERE resolver = ? AND authority = ?
LookupMap(w) ==
    /\ workers[w].pc = "idle"
    /\ \E resolver \in Resolvers, authority \in ConcAuthorities :
        LET res == {m \in blob_map : m.resolver = resolver /\ m.authority = authority}
            me == [Idle EXCEPT !.op = "lookup", !.resolver = resolver,
                               !.authority = authority]
        IN  IF res = {}
            THEN workers' = [workers EXCEPT ![w] = [me EXCEPT !.ret = None]]
            ELSE LET sha256 == (CHOOSE m \in res : TRUE).sha256
                 IN  IF sha256 = FALLBACK_ICON
                     THEN workers' = [workers EXCEPT ![w] = [me EXCEPT !.ret = Tuple(None, None)]]
                     ELSE workers' = [workers EXCEPT ![w] =
                                         [me EXCEPT !.pc = "lookup_blob", !.sha256 = sha256]]
    /\ UNCHANGED <<cfg, now, tx, sentinel_keys, seq_vars>>

\* __call__: SELECT data, mime FROM blobs WHERE sha256 = ?
LookupBlob(w) ==
    /\ workers[w].pc = "lookup_blob"
    /\ LET res == {b \in blobs : b.sha256 = workers[w].sha256}
       IN  workers' = Return(w, IF res # {}
                                THEN LET b == CHOOSE r \in res : TRUE IN Tuple(b.data, b.mime)
                                ELSE Tuple(None, None))
    /\ UNCHANGED <<cfg, now, tx, sentinel_keys, seq_vars>>

\* set(): the check for automatic maintenance
SetCall(w) ==
    /\ workers[w].pc = "idle"
    /\ \E resolver \in Resolvers, authority \in ConcAuthorities,
          mime \in ConcMimes, data \in ConcData :
        LET me == [Idle EXCEPT !.op = "set", !.resolver = resolver, !.authority = authority,
                               !.mime = mime, !.data = data]
        IN  workers' = [workers EXCEPT ![w] =
                [me EXCEPT !.pc =
                    IF /\ cfg.MAINTENANCE_MODE = "auto"
                       /\ now > next_maintenance_time(cfg, LAST_MAINTENANCE)
                    THEN "maint_check" ELSE "set_validate"]]
    /\ UNCHANGED <<cfg, now, tx, sentinel_keys, seq_vars>>

\* maintenance(force) called from outside set()
MaintenanceCall(w) ==
    /\ workers[w].pc = "idle"
    /\ \E force \in BOOLEAN :
        workers' = [workers EXCEPT ![w] =
                       [Idle EXCEPT !.op = "maintenance", !.force = force, !.pc = "maint_check"]]
    /\ UNCHANGED <<cfg, now, tx, sentinel_keys, seq_vars>>

\* where a worker goes on when maintenance() returns
AfterMaintenance(w) ==
    IF workers[w].op = "set" THEN Goto(w, "set_validate") ELSE Return(w, None)

\* maintenance(): the check of the next maintenance time
MaintenanceCheck(w) ==
    /\ workers[w].pc = "maint_check"
    /\ workers' = IF ~workers[w].force /\ now < next_maintenance_time(cfg, LAST_MAINTENANCE)
                  THEN AfterMaintenance(w)
                  ELSE Goto(w, "maint_mark")
    /\ UNCHANGED <<cfg, now, tx, sentinel_keys, seq_vars>>

\* maintenance(): properties.set("LAST_MAINTENANCE", ""), a write of its own
MaintenanceMark(w) ==
    /\ workers[w].pc = "maint_mark"
    /\ tx.owner = 0
    /\ LAST_MAINTENANCE' = now
    /\ workers' = Goto(w, "maint_tx")
    /\ UNCHANGED <<cfg, now, tx, sentinel_keys, blobs, blob_map, mem_data, mem_sha_mime, last>>

\* maintenance(): the statements of its transaction
MaintenanceStatements(w) ==
    /\ workers[w].pc = "maint_tx"
    /\ tx.owner = 0
    /\ \E o \in MaintenanceTx(cfg, blobs, blob_map, now) :
        tx' = [owner |-> w, blobs |-> o.blobs, blob_map |-> o.blob_map]
    /\ workers' = Goto(w, "maint_commit")
    /\ UNCHANGED <<cfg, now, sentinel_keys, seq_vars>>

\* set(): the checks of mime and of the size
SetValidate(w) ==
    /\ workers[w].pc = "set_validate"
    /\ workers' = IF workers[w].data # None /\ workers[w].mime = None
                  THEN Return(w, False)
                  ELSE IF bytes_count(workers[w].data) > cfg.BLOB_MAX_BYTES
                  THEN Return(w, False)
                  ELSE IF workers[w].data = None
                  THEN [workers EXCEPT ![w].pc = "set_map", ![w].sha256 = FALLBACK_ICON]
                  ELSE [workers EXCEPT ![w].pc = "set_blob",
                                       ![w].sha256 = hexdigest(workers[w].data)]
    /\ UNCHANGED <<cfg, now, tx, sentinel_keys, seq_vars>>

\* set(): if sha256 != FALLBACK_ICON: conn.execute(SQL_INSERT_BLOBS, ...),
\* the first statement of the transaction
SetInsertBlob(w) ==
    /\ workers[w].pc = "set_blob"
    /\ tx.owner = 0
    /\ tx' = [owner |-> w,
              blobs |-> SQL_INSERT_BLOBS(blobs, workers[w].sha256,
                                         bytes_count(workers[w].data),
                                         workers[w].mime, workers[w].data),
              blob_map |-> blob_map]
    /\ workers' = Goto(w, "set_map")
    /\ UNCHANGED <<cfg, now, sentinel_keys, seq_vars>>

\* set(): conn.execute(SQL_INSERT_BLOB_MAP, ...), which is the first statement
\* of the transaction when sha256 is FALLBACK_ICON
SetInsertMap(w) ==
    /\ workers[w].pc = "set_map"
    /\ IF workers[w].sha256 = FALLBACK_ICON THEN tx.owner = 0 ELSE tx.owner = w
    /\ LET t == IF tx.owner = w THEN tx
                ELSE [owner |-> w, blobs |-> blobs, blob_map |-> blob_map]
       IN  tx' = [t EXCEPT !.blob_map =
                     SQL_INSERT_BLOB_MAP(t.blob_map, workers[w].sha256,
                                         workers[w].resolver, workers[w].authority, now)]
    /\ workers' = Goto(w, "set_commit")
    /\ UNCHANGED <<cfg, now, sentinel_keys, seq_vars>>

\* the end of a with self.connect() block: the transaction commits
Commit(w) ==
    /\ workers[w].pc \in {"set_commit", "maint_commit"}
    /\ tx.owner = w
    /\ blobs' = tx.blobs
    /\ blob_map' = tx.blob_map
    /\ tx' = NoTx
    /\ IF workers[w].pc = "set_commit"
       THEN /\ workers' = Return(w, True)
            /\ sentinel_keys' =
                  IF workers[w].sha256 = FALLBACK_ICON
                  THEN sentinel_keys \cup {Key(workers[w].resolver, workers[w].authority)}
                  ELSE sentinel_keys
       ELSE /\ workers' = AfterMaintenance(w)
            /\ UNCHANGED sentinel_keys
    /\ UNCHANGED <<cfg, now, LAST_MAINTENANCE, mem_data, mem_sha_mime, last>>

\* a statement or the commit fails (for a set() of content: the upsert of
\* blob_map after the insert into blobs): the transaction rolls back and the
\* exception leaves the call
Rollback(w) ==
    /\ workers[w].pc \in {"set_map", "set_commit", "maint_commit"}
    /\ tx.owner = w
    /\ tx' = NoTx
    /\ workers' = Return(w, Raised)
    /\ UNCHANGED <<cfg, now, sentinel_keys, seq_vars>>

ConcTick ==
    /\ now < MaxTime
    /\ now' = now + 1
    /\ UNCHANGED <<cfg, seq_vars, conc_vars>>

InitConc ==
    InitCache({[c EXCEPT !.LIMIT_TOTAL_BYTES = l] :
                  c \in {x \in Configs : x.db_type = "sqlite" /\ x.MAINTENANCE_MODE = "auto"},
                  l \in {LIMIT_TOTAL_BYTES, BLOB_MAX_BYTES - 1}})

NextConc ==
    \/ ConcTick
    \/ \E w \in Workers :
        \/ LookupMap(w)
        \/ LookupBlob(w)
        \/ SetCall(w)
        \/ MaintenanceCall(w)
        \/ MaintenanceCheck(w)
        \/ MaintenanceMark(w)
        \/ MaintenanceStatements(w)
        \/ SetValidate(w)
        \/ SetInsertBlob(w)
        \/ SetInsertMap(w)
        \/ Commit(w)
        \/ Rollback(w)

SpecConc == InitConc /\ [][NextConc]_vars

----------------------------------------------------------------------------
(* The size step on its own: maintenance() on the tables that stores under  *)
(* several keys leave. Key i was last written at the time i \div 2, with    *)
(* one of the contents or with the negative result, so that several keys   *)
(* can share one blob and some rows have the same m_time.                   *)

SizeKeys == 1..6
SizeKey(i) == Str(<<"k", i>>)
SizeContents == {DataSmall, DataCeiling, Bytes(Repeat(4, BLOB_MAX_BYTES)),
                 Bytes(Repeat(5, BLOB_MAX_BYTES))}

\* the HOLD_TIME keeps every row; no automatic maintenance in the stores
SizeConfigs ==
    {[c EXCEPT !.HOLD_TIME = Cardinality(SizeKeys)] :
        c \in {x \in Configs : x.db_type = "sqlite" /\ x.MAINTENANCE_MODE = "off"}}

\* the tables after set(r, key i, png, f[i]) at the time i \div 2, for i = 1, 2, ...
RECURSIVE StoreAll(_, _, _)
StoreAll(f, i, tb) ==
    IF i \notin DOMAIN f THEN tb
    ELSE StoreAll(f, i + 1,
                  SetTx(tb.blobs, tb.blob_map, Str(<<"r">>), SizeKey(i), Str(<<"png">>),
                        f[i], i \div 2))

InitSize ==
    /\ cfg \in SizeConfigs
    /\ now = Cardinality(SizeKeys)
    /\ \E f \in [SizeKeys -> SizeContents \cup {None}] :
          LET tb == StoreAll(f, 1, [blobs |-> {}, blob_map |-> {}])
          IN  blobs = tb.blobs /\ blob_map = tb.blob_map
    /\ LAST_MAINTENANCE = 0
    /\ mem_data = <<>>
    /\ mem_sha_mime = <<>>
    /\ last = NoCall
    /\ workers = [w \in Workers |-> Idle]
    /\ tx = NoTx
    /\ sentinel_keys = {}

SpecSize == InitSize /\ [][Maintenance]_vars

----------------------------------------------------------------------------
(* FaviconCacheNull, the cache that init() builds when the SQLite library   *)
(* is too old, and its one caller (SpecNull)                                *)

\* __call__(resolver, authority)
NullLookup(resolver, authority) == None

\* set(resolver, authority, mime, data)
NullSet(resolver, authority, mime, data) == None

AllData == SqliteData \cup MemData

InitNull == InitCache({c \in Configs : c.db_type = "sqlite"})

\* CACHE(resolver, authority) on the null backend
LookupNull ==
    /\ \E resolver \in Resolvers, authority \in Authorities :
        last' = Call("lookup", resolver, authority, None, None, FALSE,
                     NullLookup(resolver, authority), NotRun({}, {}, 0))
    /\ UNCHANGED <<cfg, now, blobs, blob_map, LAST_MAINTENANCE, mem_data, mem_sha_mime,
                   conc_vars>>

\* CACHE.set(resolver, authority, mime, data) on the null backend
SetNull ==
    /\ \E resolver \in Resolvers, authority \in Authorities, mime \in Mimes, data \in AllData :
        last' = Call("set", resolver, authority, mime, data, FALSE,
                     NullSet(resolver, authority, mime, data), NotRun({}, {}, 0))
    /\ UNCHANGED <<cfg, now, blobs, blob_map, LAST_MAINTENANCE, mem_data, mem_sha_mime,
                   conc_vars>>

NextNull == Tick \/ LookupNull \/ SetNull

SpecNull == InitNull /\ [][NextNull]_vars

----------------------------------------------------------------------------
(* FaviconCacheSQLite and FaviconCacheMEM side by side (SpecBoth): one      *)
(* caller makes every call on both caches, built from the same              *)
(* configuration; ret holds the pair of what the two returned. The clock    *)
(* stands still, so that no maintenance is due.                             *)

InitBoth == InitCache({c \in Configs : c.db_type = "sqlite"})

\* CACHE(resolver, authority) on both backends
LookupBoth ==
    /\ \E resolver \in Resolvers, authority \in Authorities :
        last' = Call("lookup", resolver, authority, None, None, FALSE,
                     Tuple(SqliteLookup(blobs, blob_map, resolver, authority),
                           MemLookup(mem_data, mem_sha_mime, resolver, authority)),
                     NotRun({}, {}, 0))
    /\ UNCHANGED <<cfg, now, blobs, blob_map, LAST_MAINTENANCE, mem_data, mem_sha_mime,
                   conc_vars>>

\* CACHE.set(resolver, authority, mime, data) on both backends
SetBoth ==
    /\ \E resolver \in Resolvers, authority \in Authorities, mime \in Mimes, data \in SqliteData :
        \E o \in SqliteSet(cfg, blobs, blob_map, LAST_MAINTENANCE, now,
                           resolver, authority, mime, data) :
            LET m == MemSet(mem_data, mem_sha_mime, resolver, authority, mime, data)
            IN  /\ blobs' = o.blobs
                /\ blob_map' = o.blob_map
                /\ LAST_MAINTENANCE' = o.last_m
                /\ mem_data' = m.data
                /\ mem_sha_mime' = m.sha_mime
                /\ last' = Call("set", resolver, authority, mime, data, FALSE,
                                Tuple(o.ret, m.ret), o)
    /\ UNCHANGED <<cfg, now, conc_vars>>

NextBoth == LookupBoth \/ SetBoth

SpecBoth == InitBoth /\ [][NextBoth]_vars

----------------------------------------------------------------------------
(* The favicon proxy of searx/favicons/proxy.py on the SQLite cache         *)
(* (SpecProxy): search_favicon looks in the cache, asks the resolver on a   *)
(* miss and stores what the resolver found; favicon_url only looks in the   *)
(* cache; the maintenance is called from outside as well.                   *)

\* RESOLVER_MAP: the names that have a resolver function
RESOLVER_MAP == Resolvers

\* The resolver argument of search_favicon: a name of RESOLVER_MAP or another
ProxyResolvers == RESOLVER_MAP \cup {Str(<<"x">>)}

\* The exceptions of func(authority, REQ_ARGS): the two that search_favicon
\* catches, and KeyError for every other
HTTPError == [exception |-> "HTTPError"]
SearxEngineResponseException == [exception |-> "SearxEngineResponseException"]
KeyError == [exception |-> "KeyError"]

\* What func(authority, REQ_ARGS) does: it returns (data, mime), each of
\* them None or not, or it raises
FuncAnswers ==
    {Tuple(data, mime) : data \in SqliteData, mime \in Mimes}
    \cup {HTTPError, SearxEngineResponseException, KeyError}

\* One call that search_favicon makes: its arguments and what it gave
Event(call, args, ret) == [call |-> call, args |-> args, ret |-> ret]

\* the try block of search_favicon that keeps a tuple with one None as it is
ResolvedAsReturned(answer) ==
    IF answer \in {HTTPError, SearxEngineResponseException} THEN Tuple(None, None)
    ELSE answer

\* data, mime after the try block of search_favicon: (None, None) when func
\* raised HTTPError or SearxEngineResponseException and when it returned a
\* None for data or for mime, and what func returned otherwise
Resolved(answer) ==
    IF answer \in {HTTPError, SearxEngineResponseException} THEN Tuple(None, None)
    ELSE IF answer.tuple[1] = None \/ answer.tuple[2] = None THEN Tuple(None, None)
    ELSE answer

\* search_favicon(resolver, authority) when func answers with answer: the
\* outcomes with the tables the call leaves, ret, what it returns or raises,
\* and trace, the calls it made in their order
search_favicon(c, bl, bm, last_m, t, resolver, authority, answer) ==
    IF resolver \notin RESOLVER_MAP
    THEN {NotRun(bl, bm, last_m) @@ [ret |-> Tuple(None, None), trace |-> <<>>]}
    ELSE LET data_mime == SqliteLookup(bl, bm, resolver, authority)
             looked == <<Event("CACHE", <<resolver, authority>>, data_mime)>>
             asked == looked \o <<Event("func", <<authority>>, answer)>>
         IN  IF data_mime # None
             THEN {NotRun(bl, bm, last_m) @@ [ret |-> data_mime, trace |-> looked]}
             ELSE IF answer = KeyError
             THEN {NotRun(bl, bm, last_m) @@ [ret |-> answer, trace |-> asked]}
             ELSE LET data == Resolved(answer).tuple[1]
                      mime == Resolved(answer).tuple[2]
                  IN  {[o EXCEPT !.ret = Tuple(data, mime)]
                       @@ [trace |-> asked \o <<Event("CACHE.set",
                                                      <<resolver, authority, mime, data>>,
                                                      o.ret)>>] :
                         o \in SqliteSet(c, bl, bm, last_m, t, resolver, authority, mime, data)}

InitProxy == InitCache({c \in Configs : c.db_type = "sqlite"})

\* search_favicon(resolver, authority), as favicon_proxy calls it
SearchFavicon ==
    /\ \E resolver \in ProxyResolvers, authority \in Authorities, answer \in FuncAnswers :
        \E o \in search_favicon(cfg, blobs, blob_map, LAST_MAINTENANCE, now,
                                resolver, authority, answer) :
            /\ blobs' = o.blobs
            /\ blob_map' = o.blob_map
            /\ LAST_MAINTENANCE' = o.last_m
            /\ last' = Call("search_favicon", resolver, authority, None, None, FALSE, o.ret, o)
                       @@ [trace |-> o.trace]
    /\ UNCHANGED <<cfg, now, mem_data, mem_sha_mime, conc_vars>>

\* Lookup is the call of the cache in favicon_url
NextProxy == Tick \/ SearchFavicon \/ Lookup \/ Maintenance

SpecProxy == InitProxy /\ [][NextProxy]_vars

----------------------------------------------------------------------------
(* The claims *)

Keys == Resolvers \X Authorities

\* the key has a mapping entry in the cache
HasMapping(resolver, authority) ==
    IF cfg.db_type = "sqlite"
    THEN \E m \in blob_map : m.resolver = resolver /\ m.authority = authority
    ELSE mem_key(resolver, authority) \in DOMAIN mem_sha_mime

Miss == None
NegativeHit == Tuple(None, None)
PositiveHit(data, mime) == Tuple(data, mime)

\* the call before this state was a set() of content with a mime type and
\* of a size within BLOB_MAX_BYTES
ValidStore ==
    /\ last.op = "set"
    /\ last.mime # None
    /\ last.data # None
    /\ bytes_count(last.data) <= cfg.BLOB_MAX_BYTES

\* C1: a store of non-null content of a size within the per-blob ceiling
\* with a non-null mime returns success, and the lookup of the key right
\* after it returns PositiveHit(data, mime) with the data and the mime of
\* that store, whatever the cache held before.
RoundTrip ==
    ValidStore =>
        /\ last.ret = True
        /\ CurrentLookup(last.resolver, last.authority) = PositiveHit(last.data, last.mime)

\* C2: after a store with data = null (whatever the mime) the lookup of the
\* key returns NegativeHit, the pair (None, None); the lookup of a key with
\* no mapping entry returns Miss, None; and the two results differ.
NegativeCaching ==
    /\ (last.op = "set" /\ last.data = None) =>
          CurrentLookup(last.resolver, last.authority) = NegativeHit
    /\ \A k \in Keys : ~HasMapping(k[1], k[2]) => CurrentLookup(k[1], k[2]) = Miss
    /\ Miss # NegativeHit

\* C2's case: a negative result was stored with a mime type, which is
\* ignored, while another key has no entry
NegativeCachingWitness ==
    /\ last.op = "set" /\ last.data = None /\ last.mime # None
    /\ CurrentLookup(last.resolver, last.authority) = NegativeHit
    /\ \E k \in Keys : ~HasMapping(k[1], k[2]) /\ CurrentLookup(k[1], k[2]) = Miss

\* every blob_map row that does not hold FALLBACK_ICON has its row in blobs
Referenced(bl, bm) ==
    \A m \in bm : m.sha256 # FALLBACK_ICON => \E b \in bl : b.sha256 = m.sha256

\* C3: in every committed state of the SQLite database that interleaved
\* set() and maintenance() calls of several workers reach, also when a
\* transaction fails between the insert into blobs and the upsert of
\* blob_map, every blob_map row that does not hold the sentinel has a blobs
\* row of its digest.
ReferentialIntegrity == Referenced(blobs, blob_map)

\* C3's case: rows are committed while one worker's set() raised and rolled
\* back and another worker holds an open transaction
ReferentialIntegrityWitness ==
    /\ \E m \in blob_map : m.sha256 # FALLBACK_ICON
    /\ \E w \in Workers : workers[w].op = "set" /\ workers[w].ret = Raised
                          /\ workers[w].pc = "idle"
    /\ \E w \in Workers : tx.owner = w /\ workers[w].pc = "maint_commit"
                          /\ tx.blobs # blobs

\* C4: a lookup that runs while other workers store and maintain never
\* returns NegativeHit, (None, None), for a key whose blob_map row never held
\* the sentinel.
LookupNeverSeesMissingBlob ==
    \A w \in Workers :
        (workers[w].pc = "idle" /\ workers[w].op = "lookup" /\ workers[w].ret = NegativeHit)
            => Key(workers[w].resolver, workers[w].authority) \in sentinel_keys

\* C5: the blobs table holds at most one row per content; after a store of
\* a content there is exactly one row of it, and every blob_map row of a key
\* that holds this content carries the digest of that one row.
Deduplication ==
    /\ \A b1, b2 \in blobs : b1.data = b2.data => b1 = b2
    /\ (ValidStore /\ last.ret = True) =>
          /\ Cardinality({b \in blobs : b.data = last.data}) = 1
          /\ \A m \in blob_map :
                (m.resolver = last.resolver /\ m.authority = last.authority)
                    => \E b \in blobs : b.data = last.data /\ b.sha256 = m.sha256
    /\ \A m1, m2 \in blob_map : \A b1, b2 \in blobs :
          (b1.sha256 = m1.sha256 /\ b2.sha256 = m2.sha256 /\ b1.data = b2.data)
              => (m1.sha256 = m2.sha256 /\ b1 = b2)

\* C5's case: one content was stored under two keys, with two mime types
DeduplicationWitness ==
    /\ ValidStore /\ last.ret = True
    /\ Cardinality(blobs) = 1
    /\ Cardinality(blob_map) = 2
    /\ \A m \in blob_map : \A b \in blobs : m.sha256 = b.sha256 /\ b.data = last.data
    /\ \E b \in blobs : b.mime # last.mime

\* what CACHE(resolver, authority) returns on the given tables
LookupIn(c, bl, bm, d, sm, resolver, authority) ==
    IF c.db_type = "sqlite"
    THEN SqliteLookup(bl, bm, resolver, authority)
    ELSE MemLookup(d, sm, resolver, authority)

\* C6: a store of content with mime = null returns False, creates no row
\* in blobs and none in blob_map (nor an entry of the in-memory mappings), and
\* the lookup of the key returns after the call what it returned before it.
MimeNullRejected ==
    [][(last'.op = "set" /\ last'.data # None /\ last'.mime = None) =>
          /\ last'.ret = False
          /\ blobs' \subseteq blobs
          /\ blob_map' \subseteq blob_map
          /\ mem_data' = mem_data
          /\ mem_sha_mime' = mem_sha_mime
          /\ LookupIn(cfg, blobs', blob_map', mem_data', mem_sha_mime',
                      last'.resolver, last'.authority)
             = LookupIn(cfg, blobs, blob_map, mem_data, mem_sha_mime,
                        last'.resolver, last'.authority)]_vars

\* C7: a store of content of more than BLOB_MAX_BYTES bytes returns False,
\* creates no row in blobs and leaves no blob_map row whose digest has no
\* blobs row; content of exactly BLOB_MAX_BYTES bytes is accepted.
OversizeRejected ==
    [][/\ (last'.op = "set" /\ last'.data # None
              /\ bytes_count(last'.data) > cfg.BLOB_MAX_BYTES) =>
              /\ last'.ret = False
              /\ blobs' \subseteq blobs
              /\ \A b \in blobs' : b.data # last'.data
              /\ Referenced(blobs', blob_map')
       /\ (last'.op = "set" /\ last'.data # None /\ last'.mime # None
              /\ bytes_count(last'.data) = cfg.BLOB_MAX_BYTES) =>
              /\ last'.ret = True
              /\ \E b \in blobs' : b.data = last'.data]_vars

\* C7's case: content above the ceiling was rejected for a key that has a
\* row, while content of exactly the ceiling's size is stored
OversizeRejectedWitness ==
    /\ last.op = "set" /\ last.data # None /\ last.mime # None
    /\ bytes_count(last.data) > cfg.BLOB_MAX_BYTES
    /\ last.ret = False
    /\ HasMapping(last.resolver, last.authority)
    /\ \E b \in blobs : b.bytes_c = cfg.BLOB_MAX_BYTES

\* set() finds the automatic maintenance due
MaintenanceDue ==
    /\ cfg.MAINTENANCE_MODE = "auto"
    /\ now > LAST_MAINTENANCE + cfg.MAINTENANCE_PERIOD

\* C8, as claimed: a store that returns False leaves blobs, blob_map and
\* the last maintenance time unchanged, in every mode and at every time.
RejectedStoreWritesNothing ==
    [][(last'.op = "set" /\ last'.ret = False) =>
          /\ blobs' = blobs
          /\ blob_map' = blob_map
          /\ LAST_MAINTENANCE' = LAST_MAINTENANCE]_vars

\* C8, amended: a store that returns False inserts and updates no row. When
\* the automatic maintenance is not due (the mode is off, or the time is not
\* past the last maintenance time plus MAINTENANCE_PERIOD) it leaves blobs,
\* blob_map and the last maintenance time unchanged; when it is due, the call
\* does what one maintenance run does and no more: rows are only deleted and
\* the last maintenance time becomes the time of the call.
RejectedStoreOnlyMaintains ==
    [][(last'.op = "set" /\ last'.ret = False) =>
          IF MaintenanceDue
          THEN /\ LAST_MAINTENANCE' = now
               /\ blobs' \subseteq blobs
               /\ blob_map' \subseteq blob_map
               /\ \E o \in MaintenanceTx(cfg, blobs, blob_map, now) :
                     blobs' = o.blobs /\ blob_map' = o.blob_map
          ELSE /\ blobs' = blobs
               /\ blob_map' = blob_map
               /\ LAST_MAINTENANCE' = LAST_MAINTENANCE]_vars

\* C8's case: a rejected store ran the maintenance, which dropped rows
RejectedStoreOnlyMaintainsWitness ==
    /\ last.op = "set" /\ last.ret = False
    /\ last.ran /\ last.aged > 0 /\ last.leftover > 0
    /\ LAST_MAINTENANCE = now

\* the blob_map row is out of the hold time at the time t
Aged(m, t) == m.m_time < t - cfg.HOLD_TIME

\* C9: after a maintenance run at the time now that dropped nothing for
\* LIMIT_TOTAL_BYTES, every blob_map row older than now - HOLD_TIME is gone,
\* every blobs row that no blob_map row references is gone, and every other
\* blob_map row is still there with the blobs row it references. (For the run
\* inside set(), which then writes its own row, the last part is about the
\* rows of the other keys.)
AgeMaintenance ==
    [][/\ (last'.op = "maintenance" /\ last'.ran /\ ~last'.size) =>
              /\ \A m \in blob_map : Aged(m, now) => m \notin blob_map'
              /\ \A m \in blob_map' : ~Aged(m, now)
              /\ \A b \in blobs' : \E m \in blob_map' : m.sha256 = b.sha256
              /\ \A m \in blob_map : ~Aged(m, now) =>
                    /\ m \in blob_map'
                    /\ \A b \in blobs : b.sha256 = m.sha256 => b \in blobs'
       /\ (last'.op = "set" /\ last'.ran /\ ~last'.size) =>
              /\ \A m \in blob_map : Aged(m, now) => m \notin blob_map'
              /\ \A m \in blob_map' : ~Aged(m, now)
              /\ \A m \in blob_map :
                    (~Aged(m, now) /\ ~(m.resolver = last'.resolver
                                        /\ m.authority = last'.authority)) =>
                        /\ m \in blob_map'
                        /\ \A b \in blobs : b.sha256 = m.sha256 => b \in blobs']_vars

\* C9's case: a maintenance run dropped an aged row and the blob it left
\* behind, and kept a row within the hold time with its blob
AgeMaintenanceWitness ==
    /\ last.op = "maintenance" /\ last.ran /\ ~last.size
    /\ last.aged > 0 /\ last.leftover > 0
    /\ \E m \in blob_map : \E b \in blobs : b.sha256 = m.sha256 /\ m.m_time < now

\* C10: right after a maintenance run, whatever the tables held before it,
\* every blobs row is referenced by a blob_map row: in the state a call of
\* maintenance() leaves, and in the tables that the run inside set() would
\* leave from any state (before set() writes its own rows).
OrphanPurge ==
    /\ (last.op = "maintenance" /\ last.ran) =>
          \A b \in blobs : \E m \in blob_map : m.sha256 = b.sha256
    /\ \A o \in MaintenanceTx(cfg, blobs, blob_map, now) :
          \A b \in o.blobs : \E m \in o.blob_map : m.sha256 = b.sha256

\* C10's case: the run dropped a blob that no row was aged away from (its
\* only key was overwritten with other content), and a blob is left
OrphanPurgeWitness ==
    /\ last.op = "maintenance" /\ last.ran
    /\ last.aged = 0 /\ last.leftover > 0
    /\ blobs # {}

\* the time of the oldest row of bm that references the digest
OldestWrite(bm, sha256) ==
    CHOOSE t \in {m.m_time : m \in {r \in bm : r.sha256 = sha256}} :
        \A m \in bm : m.sha256 = sha256 => t <= m.m_time

\* the instance of C11: LIMIT_TOTAL_BYTES 100, BLOB_MAX_BYTES 50, HOLD_TIME
\* 1000, three contents of 40 bytes, three keys
InstanceConfig(c) ==
    [c EXCEPT !.HOLD_TIME = 1000, !.LIMIT_TOTAL_BYTES = 100, !.BLOB_MAX_BYTES = 50]

InstanceKey(i) == Str(<<"k", i>>)
InstanceData(i) == Bytes(Repeat(i, 40))

\* the outcomes of set(r, key i, png, content i) at the time t, from each of
\* the outcomes in from
InstanceStore(c, from, i, t) ==
    UNION {SqliteSet(c, o.blobs, o.blob_map, o.last_m, t, Str(<<"r">>), InstanceKey(i),
                     Str(<<"png">>), InstanceData(i)) : o \in from}

\* the three stores at the times 0, 1, 2 on the empty cache
InstanceStored(c) ==
    InstanceStore(c, InstanceStore(c, InstanceStore(c, {NotRun({}, {}, 0)}, 1, 0), 2, 1), 3, 2)

\* maintenance() and maintenance(force=True) at the time 3 after the three stores
InstanceMaintained(c) ==
    UNION {maintenance(c, o.blobs, o.blob_map, o.last_m, 3, force) :
             o \in InstanceStored(c), force \in BOOLEAN}

\* C11: a maintenance run, from any state the cache reaches, never increases
\* the total of the blob bytes and only deletes rows; and when its size step
\* evicts a blob, the oldest row referencing any surviving blob is not older
\* than the oldest row referencing the evicted blob. Instance: with limit
\* 100, ceiling 50 and hold time 1000, three contents of 40 bytes stored under
\* three keys at the times 0, 1, 2 on the empty cache total 120, and the
\* maintenance at the time 3 evicts exactly the entry of the time 0 and leaves
\* a total of 80.
SizeMaintenance ==
    /\ \A o \in MaintenanceTx(cfg, blobs, blob_map, now) :
          LET live == {m \in blob_map : ~Aged(m, now)}
              evicted == {b \in blobs \ o.blobs : \E m \in live : m.sha256 = b.sha256}
          IN  /\ total_bytes(o.blobs) <= total_bytes(blobs)
              /\ o.blobs \subseteq blobs
              /\ o.blob_map \subseteq blob_map
              /\ \A e \in evicted : \A s \in o.blobs :
                    OldestWrite(live, s.sha256) >= OldestWrite(live, e.sha256)
    /\ (now = 0 /\ blobs = {} /\ blob_map = {} /\ LAST_MAINTENANCE = 0 /\ last = NoCall) =>
          LET c == InstanceConfig(cfg) IN
          /\ \A o \in InstanceStored(c) : o.ret = True /\ total_bytes(o.blobs) = 120
          /\ \A o \in InstanceMaintained(c) :
                /\ o.ran /\ o.size
                /\ total_bytes(o.blobs) = 80
                /\ {b.data : b \in o.blobs} = {InstanceData(2), InstanceData(3)}
                /\ {m.authority : m \in o.blob_map} = {InstanceKey(2), InstanceKey(3)}
                /\ SqliteLookup(o.blobs, o.blob_map, Str(<<"r">>), InstanceKey(1)) = Miss

\* C11's case: the size step of a maintenance run evicted a blob and its row
\* and left another blob with its row, and the total went down
SizeMaintenanceWitness ==
    /\ last.op = "maintenance" /\ last.ran /\ last.size
    /\ last.aged = 0 /\ last.leftover = 0
    /\ blobs # {} /\ blob_map # {}
    /\ total_bytes(blobs) < cfg.LIMIT_TOTAL_BYTES

\* the sum of the bytes_c of the rows
RECURSIVE SumBytes(_)
SumBytes(bl) ==
    IF bl = {} THEN 0
    ELSE LET b == CHOOSE r \in bl : TRUE IN b.bytes_c + SumBytes(bl \ {b})

\* del is a shortest oldest-first prefix of the blobs bl whose bytes cover
\* x: no blob outside del is older than one inside, the bytes of del reach x,
\* and without its newest blob they do not
ShortestCover(bl, bm, x, del) ==
    /\ del \subseteq bl
    /\ \A d \in del : \A s \in bl \ del : OldestWrite(bm, d.sha256) <= OldestWrite(bm, s.sha256)
    /\ SumBytes(del) >= x
    /\ \E e \in del :
          /\ \A d \in del : OldestWrite(bm, d.sha256) <= OldestWrite(bm, e.sha256)
          /\ SumBytes(del \ {e}) < x

\* C12: when the blobs left by the first two steps of a maintenance run
\* total more than LIMIT_TOTAL_BYTES, the size step deletes the shortest
\* oldest-first prefix of the blobs whose byte counts cover the excess, and
\* the total after the run is within BLOB_MAX_BYTES of LIMIT_TOTAL_BYTES, above
\* and below, also when several blob_map rows share a blob and when the
\* accumulated bytes equal the excess.
SizeEvictionWithinOneBlob ==
    [][(last'.op = "maintenance" /\ last'.ran) =>
          LET live == {m \in blob_map : ~Aged(m, now)}
              bl1 == {b \in blobs : \E m \in live : m.sha256 = b.sha256}
              x == SumBytes(bl1) - cfg.LIMIT_TOTAL_BYTES
          IN  SumBytes(bl1) > cfg.LIMIT_TOTAL_BYTES =>
                /\ ShortestCover(bl1, live, x, bl1 \ blobs')
                /\ SumBytes(blobs') <= cfg.LIMIT_TOTAL_BYTES + cfg.BLOB_MAX_BYTES
                /\ SumBytes(blobs') >= cfg.LIMIT_TOTAL_BYTES - cfg.BLOB_MAX_BYTES]_vars

\* C13: a lookup, of any key and with any result, leaves blob_map with
\* every m_time, blobs and the last maintenance time unchanged and runs no
\* maintenance; so what a maintenance run at any later time deletes is the
\* same after the lookup as before it.
ReadsNeverRefresh ==
    [][(last'.op = "lookup") =>
          /\ blob_map' = blob_map
          /\ blobs' = blobs
          /\ LAST_MAINTENANCE' = LAST_MAINTENANCE
          /\ ~last'.ran
          /\ \A t \in now..MaxTime : \A force \in BOOLEAN :
                maintenance(cfg, blobs', blob_map', LAST_MAINTENANCE', t, force)
                = maintenance(cfg, blobs, blob_map, LAST_MAINTENANCE, t, force)]_vars

\* C13's case: a lookup returned the content of a row written at an earlier
\* time, and the row is out of the hold time at a time the clock reaches
ReadsNeverRefreshWitness ==
    /\ last.op = "lookup"
    /\ \E m \in blob_map :
          /\ m.resolver = last.resolver /\ m.authority = last.authority
          /\ m.m_time < now
          /\ Aged(m, MaxTime)
          /\ \E b \in blobs : b.sha256 = m.sha256 /\ last.ret = PositiveHit(b.data, b.mime)
    /\ \E k \in Keys : CurrentLookup(k[1], k[2]) = NegativeHit

\* C14: blob_map holds at most one row per (resolver, authority). After a
\* store that returned True the row of its key holds the digest of the
\* stored content, or the sentinel for a negative result, and the time of
\* the store as m_time; the lookup of the key returns the blob of that digest
\* (NegativeHit for the sentinel); and the row is within the hold time until
\* HOLD_TIME after the store.
UpsertKey ==
    /\ \A m1, m2 \in blob_map :
          (m1.resolver = m2.resolver /\ m1.authority = m2.authority) => m1 = m2
    /\ (last.op = "set" /\ last.ret = True) =>
          LET sha256 == IF last.data = None THEN FALLBACK_ICON ELSE hexdigest(last.data)
              rows == {m \in blob_map : m.resolver = last.resolver
                                        /\ m.authority = last.authority}
          IN  /\ rows = {[m_time |-> now, sha256 |-> sha256, resolver |-> last.resolver,
                          authority |-> last.authority]}
              /\ IF last.data = None
                 THEN CurrentLookup(last.resolver, last.authority) = NegativeHit
                 ELSE \E b \in blobs :
                        /\ b.sha256 = sha256 /\ b.data = last.data
                        /\ CurrentLookup(last.resolver, last.authority)
                           = PositiveHit(b.data, b.mime)
              /\ \A t \in now..(now + cfg.HOLD_TIME) :
                    rows \subseteq DropObsoleteMap(blob_map, t, cfg.HOLD_TIME)

\* C14's case: a store on a key that had a row with other content (whose
\* blob is left without a row) at a later time than the clock's start
UpsertKeyWitness ==
    /\ last.op = "set" /\ last.ret = True /\ ~last.ran
    /\ now > 0
    /\ \A m \in blob_map : m.resolver = last.resolver /\ m.authority = last.authority
    /\ blob_map # {}
    /\ \E b \in blobs : \A m \in blob_map : m.sha256 # b.sha256

\* C15: in every state of the SQLite backend every blobs row has the
\* SHA-256 of its data as sha256, the length of its data as bytes_c, at most
\* BLOB_MAX_BYTES bytes and a mime that is not null, and no blobs row has
\* the sentinel FALLBACK_ICON as sha256: a negative result only has a
\* blob_map row.
BlobRowWellFormed ==
    /\ \A b \in blobs :
          /\ b.data # None
          /\ b.sha256 = hexdigest(b.data)
          /\ b.bytes_c = Len(b.data.bytes)
          /\ b.bytes_c <= cfg.BLOB_MAX_BYTES
          /\ b.mime # None
          /\ b.sha256 # FALLBACK_ICON
    /\ (last.op = "set" /\ last.ret = True /\ last.data = None) =>
          \E m \in blob_map : /\ m.resolver = last.resolver /\ m.authority = last.authority
                               /\ m.sha256 = FALLBACK_ICON
                               /\ \A b \in blobs : b.sha256 # m.sha256

\* C15's case: a store of content above the ceiling was rejected, a
\* negative result has its row, and a blob of exactly BLOB_MAX_BYTES bytes is
\* stored beside another blob
BlobRowWellFormedWitness ==
    /\ last.op = "set" /\ last.ret = False
    /\ last.data # None /\ last.mime # None
    /\ \E m \in blob_map : m.sha256 = FALLBACK_ICON
    /\ \E b \in blobs : b.bytes_c = cfg.BLOB_MAX_BYTES
    /\ Cardinality(blobs) > 1

\* the blobs rows whose digest is gone from bl2
Deleted(bl, bl2) == {b \in bl : \A b2 \in bl2 : b2.sha256 # b.sha256}

\* every row of bl whose digest is still in bl2 is in bl2 as it was
NotMutated(bl, bl2) == \A b \in bl : \A b2 \in bl2 : b2.sha256 = b.sha256 => b2 = b

\* C16, as claimed: a blobs row never changes while it exists (also when
\* its content is stored again with another mime), no store and no lookup
\* deletes it, and a maintenance run deletes it only when no blob_map row
\* that the run keeps for its age references its digest.
BlobLifecycle ==
    [][/\ (last'.op \in {"lookup", "set"} /\ ~last'.ran) => blobs \subseteq blobs'
       /\ (last'.op \in {"lookup", "set"}) => Deleted(blobs, blobs') = {}
       /\ (last'.op = "maintenance") =>
              /\ NotMutated(blobs, blobs')
              /\ \A b \in Deleted(blobs, blobs') :
                    \A m \in blob_map : m.sha256 = b.sha256 => Aged(m, now)]_vars

\* what a maintenance run may do to the blobs bl with the rows bm, leaving
\* bl2 and bm2: it changes no row, and it deletes a blob only when every row
\* that referenced it is out of the hold time, or when its size step dropped
\* rows, and then no row references the blob any more
MaintenanceDeletes(bl, bm, bl2, bm2, size) ==
    /\ bl2 \subseteq bl
    /\ \A b \in bl \ bl2 :
          /\ \A m \in bm2 : m.sha256 # b.sha256
          /\ size \/ \A m \in bm : m.sha256 = b.sha256 => Aged(m, now)

\* C16, amended: a blobs row never changes while it exists (also when its
\* content is stored again with another mime); a lookup and the writes of
\* a store never delete it; it is deleted only by a maintenance run, called
\* as such or run by a store when the automatic maintenance is due, and
\* only when no blob_map row within the hold time references its digest or
\* when the size step evicts it together with every row that references it.
BlobLifecycleOfRuns ==
    [][/\ (last'.op \in {"lookup", "set"} /\ ~last'.ran) => blobs \subseteq blobs'
       /\ (last'.op = "set" /\ last'.ran) =>
              \E o \in MaintenanceTx(cfg, blobs, blob_map, now) :
                  /\ MaintenanceDeletes(blobs, blob_map, o.blobs, o.blob_map, o.size)
                  /\ o.blobs \subseteq blobs'
       /\ (last'.op = "maintenance") =>
              MaintenanceDeletes(blobs, blob_map, blobs', blob_map', last'.size)
       /\ \A b1, b2 \in blobs' : b1.sha256 = b2.sha256 => b1 = b2]_vars

\* C16's case: a store ran the maintenance, whose size step evicted a blob,
\* and stored a content that has its blob with another mime, which is kept
BlobLifecycleOfRunsWitness ==
    /\ ValidStore /\ last.ret = True
    /\ last.ran /\ last.size
    /\ \E b \in blobs : b.data = last.data /\ b.mime # last.mime

\* C17: on the null backend, after any calls, the lookup of every key
\* returns Miss, every store returns True, and nothing is kept.
NullBackend ==
    /\ (last.op = "lookup") => last.ret = Miss
    /\ \A k \in Keys : NullLookup(k[1], k[2]) = Miss
    /\ (last.op = "set") => last.ret = True
    /\ blobs = {} /\ blob_map = {} /\ mem_data = <<>> /\ mem_sha_mime = <<>>

\* C18: with no maintenance run and none due, every store returns the same
\* on the in-memory backend as on the SQLite backend, and every lookup
\* returns the same on both, also for stores with no mime, stores of content
\* above BLOB_MAX_BYTES and stores of one content with several mimes.
BackendEquivalence ==
    /\ (last.op \in {"set", "lookup"}) => last.ret.tuple[1] = last.ret.tuple[2]
    /\ \A k \in Keys : SqliteLookup(blobs, blob_map, k[1], k[2])
                         = MemLookup(mem_data, mem_sha_mime, k[1], k[2])

\* C19: when two maintenance runs follow each other at one time of the
\* clock with no store between them, as when two workers both find the
\* maintenance due and run it one after the other, the second run deletes
\* nothing: blobs and blob_map are as the first run left them.
MaintenanceIdempotent ==
    [][(/\ last.op = "maintenance" /\ last.ran
        /\ last'.op = "maintenance" /\ last'.ran) =>
          /\ blobs' = blobs
          /\ blob_map' = blob_map
          /\ last'.aged = 0 /\ last'.leftover = 0 /\ ~last'.size]_vars

\* what C20 says of every store: it runs the maintenance exactly when the
\* mode is auto and now > last maintenance time + MAINTENANCE_PERIOD, and
\* before its own writes (which are made on the tables the run leaves); a
\* run records the time of the call as the last maintenance time, so a store
\* runs none until more than MAINTENANCE_PERIOD after the last run; and with
\* the mode off a store deletes no row
StoreDueProtocol ==
    /\ (last'.op = "set") =>
          /\ last'.ran <=> MaintenanceDue
          /\ last'.ran =>
                \E o \in MaintenanceTx(cfg, blobs, blob_map, now) :
                    LET w == SetTx(o.blobs, o.blob_map, last'.resolver, last'.authority,
                                   last'.mime, last'.data, now)
                    IN  IF last'.ret = True
                        THEN blobs' = w.blobs /\ blob_map' = w.blob_map
                        ELSE blobs' = o.blobs /\ blob_map' = o.blob_map
          /\ (last'.ran /\ last'.ret = True) =>
                \E m \in blob_map' : /\ m.resolver = last'.resolver
                                      /\ m.authority = last'.authority
                                      /\ m.m_time = now
          /\ last'.ran => now > LAST_MAINTENANCE + cfg.MAINTENANCE_PERIOD
          /\ cfg.MAINTENANCE_MODE = "off" =>
                /\ blobs \subseteq blobs'
                /\ \A m \in blob_map : \E m2 \in blob_map' :
                      m2.resolver = m.resolver /\ m2.authority = m.authority
    /\ (last'.op \in {"set", "maintenance"}) =>
          LAST_MAINTENANCE' = IF last'.ran THEN now ELSE LAST_MAINTENANCE

\* C20, as claimed: the protocol of the stores, and a non-forced
\* maintenance call runs (performs its deletions) under exactly the
\* condition of the stores: the mode is auto and
\* now > last maintenance time + MAINTENANCE_PERIOD.
MaintenanceDueProtocol ==
    [][/\ StoreDueProtocol
       /\ (last'.op = "maintenance" /\ ~last'.force) =>
              (last'.ran <=> MaintenanceDue)]_vars

\* C20, amended: the protocol of the stores, and a non-forced maintenance
\* call runs exactly when now >= last maintenance time + MAINTENANCE_PERIOD,
\* in either mode: also at the time last maintenance time +
\* MAINTENANCE_PERIOD itself, where a store runs none, and with the mode off.
\* A forced call always runs.
MaintenanceDueProtocolOfCalls ==
    [][/\ StoreDueProtocol
       /\ (last'.op = "maintenance" /\ ~last'.force) =>
              (last'.ran <=> now >= LAST_MAINTENANCE + cfg.MAINTENANCE_PERIOD)
       /\ (last'.op = "maintenance" /\ last'.force) => last'.ran]_vars

\* C20's case: with the mode off a non-forced maintenance call at the time
\* 0 + MAINTENANCE_PERIOD ran and its size step dropped rows
MaintenanceDueProtocolOfCallsWitness ==
    /\ last.op = "maintenance" /\ ~last.force /\ last.ran /\ last.size
    /\ cfg.MAINTENANCE_MODE = "off"
    /\ now = cfg.MAINTENANCE_PERIOD
    /\ LAST_MAINTENANCE = now

\* how many calls of the name are in the trace
Calls(trace, call) == Cardinality({i \in DOMAIN trace : trace[i].call = call})

\* the resolver found no icon, or raised one of the two caught exceptions
NoIcon(answer) ==
    IF answer \in {HTTPError, SearxEngineResponseException} THEN TRUE
    ELSE IF answer = KeyError THEN FALSE
    ELSE \E data \in SqliteData, mime \in Mimes :
            /\ answer = Tuple(data, mime)
            /\ data = None \/ mime = None

\* C21: a search_favicon of a resolver of RESOLVER_MAP first looks in the
\* cache, once; it calls the resolver function when the lookup returned Miss
\* and only then, so never for a key that has a mapping row; when the
\* function returned or raised HTTPError or SearxEngineResponseException,
\* the next and only other call is one store, of (None, None) for an
\* exception and for a result with a None in it, and of the result
\* otherwise; after a store of (None, None) the lookup of the key returns
\* NegativeHit. In every step a key whose lookup returns NegativeHit keeps
\* returning it as long as it has a mapping row.
CacheFirstResolution ==
    [][/\ (last'.op = "search_favicon" /\ last'.resolver \in RESOLVER_MAP) =>
            LET resolver == last'.resolver
                authority == last'.authority
                trace == last'.trace
                looked == SqliteLookup(blobs, blob_map, resolver, authority)
            IN  /\ trace # <<>>
                /\ trace[1] = Event("CACHE", <<resolver, authority>>, looked)
                /\ Calls(trace, "CACHE") = 1
                /\ Calls(trace, "func") = IF looked = Miss THEN 1 ELSE 0
                /\ HasMapping(resolver, authority) => Calls(trace, "func") = 0
                /\ Calls(trace, "func") = 0 => Len(trace) = 1
                /\ \A i \in DOMAIN trace : trace[i].call = "func" =>
                      LET answer == trace[i].ret
                      IN  IF answer = KeyError THEN Len(trace) = i
                          ELSE /\ i = 2 /\ Len(trace) = 3
                               /\ trace[3].call = "CACHE.set"
                               /\ trace[3].args =
                                     IF NoIcon(answer)
                                     THEN <<resolver, authority, None, None>>
                                     ELSE <<resolver, authority,
                                            answer.tuple[2], answer.tuple[1]>>
                               /\ NoIcon(answer) =>
                                     SqliteLookup(blobs', blob_map', resolver, authority)
                                     = NegativeHit
       /\ \A k \in Keys :
            (/\ SqliteLookup(blobs, blob_map, k[1], k[2]) = NegativeHit
             /\ \E m \in blob_map' : m.resolver = k[1] /\ m.authority = k[2])
            => SqliteLookup(blobs', blob_map', k[1], k[2]) = NegativeHit]_vars

\* C21's case: the resolver raised HTTPError in a search_favicon, which
\* stored (None, None) for a key that now returns NegativeHit, while another
\* key still returns the NegativeHit of a search_favicon at an earlier time
CacheFirstResolutionWitness ==
    /\ last.op = "search_favicon"
    /\ Len(last.trace) = 3
    /\ last.trace[1].ret = Miss
    /\ last.trace[2].ret = HTTPError
    /\ last.trace[3].args = <<last.resolver, last.authority, None, None>>
    /\ last.ret = Tuple(None, None)
    /\ CurrentLookup(last.resolver, last.authority) = NegativeHit
    /\ \E m \in blob_map :
          /\ m.authority # last.authority
          /\ m.m_time < now
          /\ CurrentLookup(m.resolver, m.authority) = NegativeHit

\* C22: entries expire at maintenance only. A lookup of a key that has a
\* row, of whatever age, returns the row's content, the blob of its digest
\* or NegativeHit for the sentinel, and never Miss; a lookup and the passing
\* of time leave both tables as they are and run no maintenance; a
\* maintenance runs only in a call of maintenance and in a store in
\* automatic mode; and a row stays as it is in every step unless a
\* maintenance ran in it or a store wrote the row of its key again.
ExpiryOnlyAtMaintenance ==
    [][/\ (last'.op = "lookup") =>
            \A m \in blob_map :
                (m.resolver = last'.resolver /\ m.authority = last'.authority) =>
                    /\ last'.ret # Miss
                    /\ IF m.sha256 = FALLBACK_ICON THEN last'.ret = NegativeHit
                       ELSE \E b \in blobs : /\ b.sha256 = m.sha256
                                             /\ last'.ret = PositiveHit(b.data, b.mime)
       /\ (last'.op \in {"lookup", "none"}) =>
            /\ blob_map' = blob_map
            /\ blobs' = blobs
            /\ ~last'.ran
       /\ last'.ran =>
            \/ last'.op = "maintenance"
            \/ last'.op = "set" /\ cfg.MAINTENANCE_MODE = "auto"
       /\ \A m \in blob_map :
            \/ m \in blob_map'
            \/ last'.ran
            \/ /\ last'.op = "set"
               /\ m.resolver = last'.resolver /\ m.authority = last'.authority
               /\ \E n \in blob_map' : /\ n.resolver = m.resolver
                                       /\ n.authority = m.authority
                                       /\ n.m_time = now]_vars

\* C22's case: in automatic mode, with the maintenance due, a lookup
\* returned the content of a row that is out of the hold time, and the row
\* of another key, out of the hold time as well, gives NegativeHit
ExpiryOnlyAtMaintenanceWitness ==
    /\ cfg.MAINTENANCE_MODE = "auto"
    /\ now > next_maintenance_time(cfg, LAST_MAINTENANCE)
    /\ last.op = "lookup"
    /\ \E m \in blob_map :
          /\ m.resolver = last.resolver /\ m.authority = last.authority
          /\ Aged(m, now)
          /\ \E b \in blobs : b.sha256 = m.sha256 /\ last.ret = PositiveHit(b.data, b.mime)
    /\ \E m \in blob_map :
          /\ Aged(m, now)
          /\ m.sha256 = FALLBACK_ICON
          /\ CurrentLookup(m.resolver, m.authority) = NegativeHit

====
